---- MODULE Spec2Model ----
(***************************************************************************)
(* Model of the "You Pushed" extension (src/src/extension.ts).             *)
(*                                                                         *)
(* The extension host runs every handler to completion on one event loop,  *)
(* so each handler is one atomic action.  Time is kept relative: a timer   *)
(* created by setTimeout(f, d) is a record with left = d, the action       *)
(* Advance lets time pass and never lets it pass the moment a pending      *)
(* timer is due, and a timer's callback runs when its left is 0.  Panels   *)
(* carry their age, and sinceTrig is the time since the last call of       *)
(* triggerYouPushed, all in milliseconds.                                  *)
(***************************************************************************)
EXTENDS Integers, Sequences, FiniteSets, TLC

\* ---------------------------------------------------------------- bounds
MaxEvents == 4           \* stimuli per behaviour: Detection Events, test
                         \* commands, wrapper calls, external closes, steps
                         \* of the clock that stop short of a timer, and
                         \* events of the git integration

Delays == {250, 750}     \* how far the clock may move in one step
Folders == {"f1", "f2"}  \* candidate workspace roots
Repos == {"r1", "r2"}    \* repositories the git integration may track
InitialRepos == {"r1"}   \* api.repositories when the bridge attaches
Errors == {"E1", "E2"}   \* errors the original git command may raise

\* workspaces: the roots and, among them, those with .git/logs/refs/remotes;
\* no folders stands for workspaceFolders being undefined
Workspaces ==
    {[folders |-> {}, remotes |-> {}],
     [folders |-> Folders, remotes |-> {"f1"}],
     [folders |-> Folders, remotes |-> Folders]}

\* events the optional members of a repository offer
HasOperationEvent(r) == TRUE
HasCommandEvent(r) == r = "r1"

ApiOutcomes == {"api", "none", "throws"}   \* what git.getAPI(1) does
FsKinds == {"change", "create", "delete"}
Operations == {"Push", "Sync", "Pull", "Commit"}
CommandEvents ==
    {[hasCommand |-> FALSE, command |-> <<>>],
     [hasCommand |-> TRUE, command |-> <<>>],
     [hasCommand |-> TRUE, command |-> <<"push">>],
     [hasCommand |-> TRUE, command |-> <<"push", "origin">>],
     [hasCommand |-> TRUE, command |-> <<"fetch", "push">>]}

\* ------------------------------------------------------ program constants
DebounceMs == 500
DismissMs == 5000

pushCommands ==
    {"git.push", "git.pushForce", "git.pushTo", "git.pushWithTags",
     "git.sync", "git.syncRebase", "git.publish"}

TestId == "you-pushed.test"
WrapId(c) == "you-pushed.wrap." \o c

\* durations are measured exactly up to these values and are "longer" beyond
FarMs == DebounceMs + 250
OldMs == DismissMs + 250

VARIABLES
    currentPanel,     \* module variable: index into panels, 0 = undefined
    debounceTimer,    \* module variable: a timer handle, 0 = undefined
    timers,           \* pending timers of the event loop: [id, kind, left]
    panels,           \* every webview panel created so far, in order
    gaps,             \* per call of triggerYouPushed, the time since the one before
    sinceTrig,        \* time since the last call of triggerYouPushed, -1 = none
    staleDispose,     \* dispose() was called on an already disposed panel
    waits,            \* steps of the clock that stopped short of a timer
    pc,               \* "inactive", "active" or "deactivated"
    workspace,        \* [folders, remotes]: roots, and those with a reflog dir
    gitExtension,     \* "absent", "inactive" or "active"
    watchers,         \* roots that got a file system watcher
    commands,         \* command ids this extension registered
    bridge,           \* progress of setupGitExtensionListener
    listeners,        \* <<repo, kind>> listeners attached by watchRepository
    calls,            \* invocations of wrapper commands, in order
    lastEvent         \* the last event a watcher or repository listener got,
                      \* recorded by the Observed actions only

timeVars == <<currentPanel, debounceTimer, timers, panels, gaps, sinceTrig,
              staleDispose, waits>>
envVars == <<pc, workspace, gitExtension, watchers, commands, bridge,
             listeners, calls>>
hostVars == <<pc, workspace, gitExtension, watchers, commands, bridge,
              listeners, calls, lastEvent>>
vars == <<currentPanel, debounceTimer, timers, panels, gaps, sinceTrig,
          staleDispose, waits, pc, workspace, gitExtension, watchers, commands,
          bridge, listeners, calls, lastEvent>>

\* ------------------------------------------------------------- helpers
Min(a, b) == IF a < b THEN a ELSE b

\* handle of the next timer setTimeout creates: handles are never reused
NewHandle == Len(gaps) + Len(panels) + 1

\* setTimeout(callback, delay)
SetTimeout(ts, kind, delay) ==
    ts \cup {[id |-> NewHandle, kind |-> kind, left |-> delay]}

\* clearTimeout(handle): no effect when the timer has fired or was cleared
ClearTimeout(ts, handle) == {t \in ts : t.id # handle}

\* stimuli so far
Spent ==
    Len(gaps) + Len(calls) + waits
    + Cardinality({i \in 1..Len(panels) :
                     panels[i].by = "test" \/ panels[i].closedBy = "external"})
    + Cardinality({r \in Repos \ InitialRepos : <<r, "state">> \in listeners})
    + (IF gitExtension = "inactive" /\ bridge \notin {"idle", "awaiting"}
       THEN 1 ELSE 0)

LivePanels == {i \in 1..Len(panels) : panels[i].live}

\* panel.dispose(): closes a live panel; a no-op on a disposed one.  The
\* age of a panel is kept after the auto-close timer disposed it.
Dispose(ps, p, why) ==
    IF p \in 1..Len(ps) /\ ps[p].live
    THEN [ps EXCEPT ![p] = [@ EXCEPT !.live = FALSE, !.closedBy = why,
                                     !.age = IF why = "auto" THEN @ ELSE 0]]
    ELSE ps

IsStale(p) == p \in 1..Len(panels) /\ ~panels[p].live

\* faulty variant: the listener leaves currentPanel as it is
onDidDispose_Keep(cp) == cp

\* the listener registered with panel.onDidDispose: it clears currentPanel
onDidDispose(cp) == 0

\* value of currentPanel after currentPanel.dispose() returned: the host runs
\* the panel's onDidDispose listeners inside dispose(), once per panel
AfterDispose(cp) == IF cp # 0 /\ ~IsStale(cp) THEN onDidDispose(cp) ELSE cp

\* createWebviewPanel: age is the time the panel has been live, and after is
\* the time between the last Detection Event and the show its timer made
NewPanel(by) ==
    [by |-> by, live |-> TRUE, age |-> 0, closedBy |-> "none",
     after |-> IF by = "debounce" THEN sinceTrig ELSE -1]

\* ------------------------------------------------------------- handlers

\* faulty variant: the pending debounce timer is not cancelled
triggerYouPushed_NoClear ==
    /\ Spent < MaxEvents
    /\ timers' = SetTimeout(timers, "debounce", DebounceMs)
    /\ debounceTimer' = NewHandle
    /\ gaps' = Append(gaps, sinceTrig)
    /\ sinceTrig' = 0
    /\ UNCHANGED <<currentPanel, panels, staleDispose, waits>>

\* faulty variant: once debounceTimer is set, later events schedule nothing
triggerYouPushed_Once ==
    /\ Spent < MaxEvents
    /\ IF debounceTimer # 0
       THEN UNCHANGED <<timers, debounceTimer>>
       ELSE /\ timers' = SetTimeout(timers, "debounce", DebounceMs)
            /\ debounceTimer' = NewHandle
    /\ gaps' = Append(gaps, sinceTrig)
    /\ sinceTrig' = 0
    /\ UNCHANGED <<currentPanel, panels, staleDispose, waits>>

\* triggerYouPushed: cancel the pending debounce timer, schedule a new one
triggerYouPushed ==
    /\ Spent < MaxEvents
    /\ timers' = SetTimeout(IF debounceTimer # 0
                            THEN ClearTimeout(timers, debounceTimer)
                            ELSE timers,
                            "debounce", DebounceMs)
    /\ debounceTimer' = NewHandle
    /\ gaps' = Append(gaps, sinceTrig)
    /\ sinceTrig' = 0
    /\ UNCHANGED <<currentPanel, panels, staleDispose, waits>>

\* faulty variant: the panel that is open is not disposed
showYouPushedMessage_NoDispose(ts, by) ==
    /\ panels' = Append(panels, NewPanel(by))
    /\ currentPanel' = Len(panels) + 1
    /\ timers' = SetTimeout(ts, "dismiss", DismissMs)
    /\ UNCHANGED <<debounceTimer, gaps, sinceTrig, waits, staleDispose>>

\* faulty variant: no auto-close timer is set
showYouPushedMessage_NoTimer(ts, by) ==
    /\ panels' = Append(IF currentPanel # 0
                        THEN Dispose(panels, currentPanel, "replaced")
                        ELSE panels,
                        NewPanel(by))
    /\ staleDispose' = (staleDispose \/ (currentPanel # 0 /\ IsStale(currentPanel)))
    /\ currentPanel' = Len(panels) + 1
    /\ timers' = ts
    /\ UNCHANGED <<debounceTimer, gaps, sinceTrig, waits>>

\* faulty variant: showing the panel also clears the debounce timer
showYouPushedMessage_ClearsDebounce(ts, by) ==
    /\ panels' = Append(IF currentPanel # 0
                        THEN Dispose(panels, currentPanel, "replaced")
                        ELSE panels,
                        NewPanel(by))
    /\ staleDispose' = (staleDispose \/ (currentPanel # 0 /\ IsStale(currentPanel)))
    /\ currentPanel' = Len(panels) + 1
    /\ timers' = SetTimeout(ClearTimeout(ts, debounceTimer), "dismiss", DismissMs)
    /\ UNCHANGED <<debounceTimer, gaps, sinceTrig, waits>>

\* showYouPushedMessage, called with ts the pending timers at the call
showYouPushedMessage(ts, by) ==
    /\ panels' = Append(IF currentPanel # 0
                        THEN Dispose(panels, currentPanel, "replaced")
                        ELSE panels,
                        NewPanel(by))
    /\ staleDispose' = (staleDispose \/ (currentPanel # 0 /\ IsStale(currentPanel)))
    /\ currentPanel' = Len(panels) + 1
    /\ timers' = SetTimeout(ts, "dismiss", DismissMs)
    /\ UNCHANGED <<debounceTimer, gaps, sinceTrig, waits>>

\* the callback of the debounce timer t
DebounceFire(t) ==
    /\ t \in timers /\ t.kind = "debounce" /\ t.left = 0
    /\ showYouPushedMessage(timers \ {t}, "debounce")
    /\ UNCHANGED hostVars

\* the callback of the auto-close timer t
DismissFire(t) ==
    /\ t \in timers /\ t.kind = "dismiss" /\ t.left = 0
    /\ timers' = timers \ {t}
    /\ IF currentPanel # 0
       THEN /\ panels' = Dispose(panels, currentPanel, "auto")
            /\ staleDispose' = (staleDispose \/ IsStale(currentPanel))
            /\ currentPanel' = 0
       ELSE UNCHANGED <<panels, staleDispose, currentPanel>>
    /\ UNCHANGED <<debounceTimer, gaps, sinceTrig, waits>>
    /\ UNCHANGED hostVars

\* the user (or the host) closes the live panel p
ExternalClose(p) ==
    /\ p \in LivePanels
    /\ Spent < MaxEvents
    /\ panels' = Dispose(panels, p, "external")
    /\ currentPanel' = onDidDispose(currentPanel)
    /\ UNCHANGED <<debounceTimer, timers, gaps, sinceTrig, staleDispose, waits>>
    /\ UNCHANGED hostVars

\* the command you-pushed.test
TestCommand ==
    /\ TestId \in commands
    /\ Spent < MaxEvents
    /\ showYouPushedMessage(timers, "test")
    /\ UNCHANGED hostVars

\* time until the next pending timer is due
NextDue == CHOOSE d \in {t.left : t \in timers} : \A t \in timers : d <= t.left

\* d milliseconds pass
Elapse(d) ==
    /\ timers' = {[t EXCEPT !.left = @ - d] : t \in timers}
    /\ panels' = [i \in 1..Len(panels) |->
                    IF panels[i].live
                    THEN [panels[i] EXCEPT !.age = Min(@ + d, OldMs)]
                    ELSE panels[i]]
    /\ sinceTrig' = (IF sinceTrig < 0 THEN sinceTrig ELSE Min(sinceTrig + d, FarMs))
    /\ UNCHANGED <<currentPanel, debounceTimer, gaps, staleDispose>>
    /\ UNCHANGED hostVars

\* time passes until the next timer is due
AdvanceToTimer ==
    /\ timers # {}
    /\ NextDue > 0
    /\ Elapse(NextDue)
    /\ UNCHANGED waits

\* d milliseconds pass and no timer comes due before they have passed
Advance(d) ==
    /\ pc # "inactive"
    /\ Spent < MaxEvents
    /\ \A t \in timers : d <= t.left
    /\ Elapse(d)
    /\ waits' = waits + 1

\* ------------------------------------------------------------ activation

\* faulty variant: a root is watched whether its reflog directory exists or not
setupGitPushWatcher_AllRoots(ws) == ws.folders

\* setupGitPushWatcher: one watcher per root whose reflog directory exists
setupGitPushWatcher(ws) ==
    IF ws.folders = {} THEN {}
    ELSE {f \in ws.folders : f \in ws.remotes}

\* watchRepository(repo): the listeners it attaches
watchRepository(r) ==
    {<<r, "state">>}
    \cup (IF HasOperationEvent(r) THEN {<<r, "operation">>} ELSE {})
    \cup (IF HasCommandEvent(r) THEN {<<r, "command">>} ELSE {})

\* setupGitExtensionListener from `git.getAPI(1)` on; api is what it does:
\* it returns the API, returns nothing, or throws
ObtainApi(api) ==
    CASE api = "api" ->
            /\ listeners' = UNION {watchRepository(r) : r \in InitialRepos}
            /\ bridge' = "attached"
      [] api = "none" ->
            /\ bridge' = "disabled"
            /\ UNCHANGED listeners
      [] OTHER ->
            /\ bridge' = "rejected"
            /\ UNCHANGED listeners

\* faulty variant: a missing git extension is not checked for, and reading
\* gitExtension.isActive throws
setupGitExtensionListener_NoCheck(api) ==
    CASE gitExtension = "absent" ->
            /\ bridge' = "rejected"
            /\ UNCHANGED listeners
      [] gitExtension = "active" -> ObtainApi(api)
      [] OTHER ->
            /\ bridge' = "awaiting"
            /\ UNCHANGED listeners

\* setupGitExtensionListener up to its first suspension
setupGitExtensionListener(api) ==
    CASE gitExtension = "absent" ->
            /\ bridge' = "disabled"
            /\ UNCHANGED listeners
      [] gitExtension = "active" -> ObtainApi(api)
      [] OTHER ->
            /\ bridge' = "awaiting"
            /\ UNCHANGED listeners

\* activate(context)
Activate(api) ==
    /\ pc = "inactive"
    /\ pc' = "active"
    /\ commands' = {TestId} \cup {WrapId(c) : c \in pushCommands}
    /\ watchers' = setupGitPushWatcher(workspace)
    /\ setupGitExtensionListener(api)
    /\ UNCHANGED <<workspace, gitExtension, calls, lastEvent>>
    /\ UNCHANGED timeVars

\* the git extension's activate() settles: setupGitExtensionListener resumes
BridgeResume(activated, api) ==
    /\ bridge = "awaiting"
    /\ Spent < MaxEvents
    /\ IF activated THEN ObtainApi(api)
       ELSE bridge' = "rejected" /\ UNCHANGED listeners
    /\ UNCHANGED <<pc, workspace, gitExtension, watchers, commands, calls,
                   lastEvent>>
    /\ UNCHANGED timeVars

\* api.onDidOpenRepository
OpenRepository(r) ==
    /\ bridge = "attached"
    /\ <<r, "state">> \notin listeners
    /\ Spent < MaxEvents
    /\ listeners' = listeners \cup watchRepository(r)
    /\ UNCHANGED <<pc, workspace, gitExtension, watchers, commands, bridge,
                   calls, lastEvent>>
    /\ UNCHANGED timeVars

\* faulty variant: the debounce timer is not cleared
Deactivate_NoClear ==
    /\ pc = "active"
    /\ pc' = "deactivated"
    /\ panels' = (IF currentPanel # 0
                  THEN Dispose(panels, currentPanel, "deactivate")
                  ELSE panels)
    /\ staleDispose' = (staleDispose \/ (currentPanel # 0 /\ IsStale(currentPanel)))
    /\ currentPanel' = AfterDispose(currentPanel)
    /\ commands' = {}
    /\ watchers' = {}
    /\ UNCHANGED <<debounceTimer, timers, gaps, sinceTrig, waits>>
    /\ UNCHANGED <<workspace, gitExtension, bridge, listeners, calls,
                   lastEvent>>

\* deactivate(); the host then disposes context.subscriptions
Deactivate ==
    /\ pc = "active"
    /\ pc' = "deactivated"
    /\ panels' = (IF currentPanel # 0
                  THEN Dispose(panels, currentPanel, "deactivate")
                  ELSE panels)
    /\ staleDispose' = (staleDispose \/ (currentPanel # 0 /\ IsStale(currentPanel)))
    /\ currentPanel' = AfterDispose(currentPanel)
    /\ timers' = (IF debounceTimer # 0
                  THEN ClearTimeout(timers, debounceTimer)
                  ELSE timers)
    /\ commands' = {}
    /\ watchers' = {}
    /\ UNCHANGED <<debounceTimer, gaps, sinceTrig, waits>>
    /\ UNCHANGED <<workspace, gitExtension, bridge, listeners, calls,
                   lastEvent>>

\* ------------------------------------------------------ detection sources

\* the listeners of the watcher of root f: onDidChange and onDidCreate
onFsEvent(f, kind) ==
    /\ f \in watchers
    /\ IF kind \in {"change", "create"}
       THEN triggerYouPushed
       ELSE UNCHANGED timeVars

\* a file event under <root>/.git/logs/refs/remotes
FsEvent(f, kind) ==
    /\ onFsEvent(f, kind)
    /\ UNCHANGED hostVars

\* repo.state.onDidChange: the listener reads the state and does nothing
RepoStateChange(r) ==
    /\ <<r, "state">> \in listeners
    /\ UNCHANGED vars

\* faulty variant: only Push is looked for
onDidRunOperation_PushOnly(r, op) ==
    /\ <<r, "operation">> \in listeners
    /\ IF op = "Push"
       THEN triggerYouPushed
       ELSE UNCHANGED timeVars

\* the listener given to repo.onDidRunOperation
onDidRunOperation(r, op) ==
    /\ <<r, "operation">> \in listeners
    /\ IF op = "Push" \/ op = "Sync"
       THEN triggerYouPushed
       ELSE UNCHANGED timeVars

\* the repository r ran the operation op
RepoOperation(r, op) ==
    /\ onDidRunOperation(r, op)
    /\ UNCHANGED hostVars

\* event.command?.[0] || ''
FirstToken(ev) ==
    IF ev.hasCommand /\ Len(ev.command) > 0 THEN ev.command[1] ELSE ""

\* the listener given to repo.onDidRunGitCommand
onDidRunGitCommand(r, ev) ==
    /\ <<r, "command">> \in listeners
    /\ IF FirstToken(ev) = "push"
       THEN triggerYouPushed
       ELSE UNCHANGED timeVars

\* the repository r ran the git command of event ev
RepoGitCommand(r, ev) ==
    /\ onDidRunGitCommand(r, ev)
    /\ UNCHANGED hostVars

\* faulty variant: the Detection Event is emitted before the original command
\* is awaited
WrapperInvoke_EmitsEarly(c) ==
    /\ WrapId(c) \in commands
    /\ Spent < MaxEvents
    /\ triggerYouPushed
    /\ calls' = Append(calls, [state |-> "running", error |-> "none",
                               thrown |-> "none"])
    /\ UNCHANGED <<pc, workspace, gitExtension, watchers, commands, bridge,
                   listeners, lastEvent>>

\* a wrapper command is invoked: it starts the original command and suspends
WrapperInvoke(c) ==
    /\ WrapId(c) \in commands
    /\ Spent < MaxEvents
    /\ calls' = Append(calls, [state |-> "running", error |-> "none",
                               thrown |-> "none"])
    /\ UNCHANGED <<pc, workspace, gitExtension, watchers, commands, bridge,
                   listeners, lastEvent>>
    /\ UNCHANGED timeVars

\* faulty variant: the Detection Event is emitted whatever the outcome
WrapperSettle_Finally(i, outcome) ==
    /\ i \in 1..Len(calls)
    /\ calls[i].state = "running"
    /\ triggerYouPushed
    /\ IF outcome = "ok"
       THEN calls' = [calls EXCEPT ![i] = [@ EXCEPT !.state = "done"]]
       ELSE calls' = [calls EXCEPT ![i] = [@ EXCEPT !.state = "failed",
                                 !.error = outcome, !.thrown = outcome]]
    /\ UNCHANGED <<pc, workspace, gitExtension, watchers, commands, bridge,
                   listeners, lastEvent>>

\* the original command of call i settles with outcome "ok" or an error
WrapperSettle(i, outcome) ==
    /\ i \in 1..Len(calls)
    /\ calls[i].state = "running"
    /\ IF outcome = "ok"
       THEN /\ triggerYouPushed
            /\ calls' = [calls EXCEPT ![i] = [@ EXCEPT !.state = "done"]]
       ELSE /\ calls' = [calls EXCEPT ![i] = [@ EXCEPT !.state = "failed",
                                 !.error = outcome, !.thrown = outcome]]
            /\ UNCHANGED timeVars
    /\ UNCHANGED <<pc, workspace, gitExtension, watchers, commands, bridge,
                   listeners, lastEvent>>

\* -------------------------------------------------------- specifications

\* an event as a listener receives it: its source ("fs", "operation" or
\* "command"), the root or repository it comes from, what it reports, and
\* whether its listener called triggerYouPushed
NoCommand == [hasCommand |-> FALSE, command |-> <<>>]
NoEvent ==
    [kind |-> "none", from |-> "", what |-> "", ev |-> NoCommand,
     emitted |-> FALSE, sources |-> {}]

\* the event as recorded once its listener has run: sources are the roots
\* or repositories whose events called triggerYouPushed so far
Recorded(kind, from, what, ev) ==
    [kind |-> kind, from |-> from, what |-> what, ev |-> ev,
     emitted |-> Len(gaps') > Len(gaps),
     sources |-> IF Len(gaps') > Len(gaps)
                 THEN lastEvent.sources \cup {from}
                 ELSE lastEvent.sources]

\* a file event, recorded
ObservedFsEvent(f, kind) ==
    /\ onFsEvent(f, kind)
    /\ lastEvent' = Recorded("fs", f, kind, NoCommand)
    /\ UNCHANGED envVars

\* an operation of a repository, recorded
ObservedOperation(r, op) ==
    /\ onDidRunOperation(r, op)
    /\ lastEvent' = Recorded("operation", r, op, NoCommand)
    /\ UNCHANGED envVars

\* a git command of a repository, recorded
ObservedGitCommand(r, ev) ==
    /\ onDidRunGitCommand(r, ev)
    /\ lastEvent' = Recorded("command", r, "", ev)
    /\ UNCHANGED envVars

\* the state after the module is loaded, in workspace ws with the git
\* integration in state ge
Loaded(ws, ge) ==
    /\ currentPanel = 0
    /\ debounceTimer = 0
    /\ timers = {}
    /\ panels = <<>>
    /\ gaps = <<>>
    /\ sinceTrig = -1
    /\ staleDispose = FALSE
    /\ waits = 0
    /\ pc = "inactive"
    /\ workspace = ws
    /\ gitExtension = ge
    /\ watchers = {}
    /\ commands = {}
    /\ bridge = "idle"
    /\ listeners = {}
    /\ calls = <<>>
    /\ lastEvent = NoEvent

\* Trigger and presenter: one watched root, no git integration.  Detection
\* Events come from the file system watcher; every other source calls the
\* same triggerYouPushed.
Init == Loaded([folders |-> {"f1"}, remotes |-> {"f1"}], "absent")

Next ==
    \/ \E api \in ApiOutcomes : Activate(api)
    \/ Deactivate
    \/ \E f \in Folders, k \in FsKinds : FsEvent(f, k)
    \/ TestCommand
    \/ \E t \in timers : DebounceFire(t)
    \/ \E t \in timers : DismissFire(t)
    \/ \E p \in 1..Len(panels) : ExternalClose(p)
    \/ \E d \in Delays : Advance(d)
    \/ AdvanceToTimer

Spec == Init /\ [][Next]_vars

\* Detection sources: every workspace, every state of the git integration,
\* the bridge and the wrapper commands; the panel is left to its timers.
HostInit ==
    \E ws \in Workspaces, ge \in {"absent", "inactive", "active"} : Loaded(ws, ge)

HostNext ==
    \/ \E api \in ApiOutcomes : Activate(api)
    \/ \E a \in BOOLEAN, api \in ApiOutcomes : BridgeResume(a, api)
    \/ \E r \in Repos : OpenRepository(r)
    \/ Deactivate
    \/ \E f \in Folders, k \in FsKinds : FsEvent(f, k)
    \/ \E r \in Repos : RepoStateChange(r)
    \/ \E r \in Repos, op \in Operations : RepoOperation(r, op)
    \/ \E r \in Repos, ev \in CommandEvents : RepoGitCommand(r, ev)
    \/ \E c \in pushCommands : WrapperInvoke(c)
    \/ \E i \in 1..Len(calls), o \in {"ok"} \cup Errors : WrapperSettle(i, o)
    \/ \E t \in timers : DebounceFire(t)
    \/ \E t \in timers : DismissFire(t)
    \/ \E d \in Delays : Advance(d)
    \/ AdvanceToTimer

HostSpec == HostInit /\ [][HostNext]_vars

\* Repository listeners: no workspace, the git extension installed; every
\* event a listener gets is recorded.
ListenerInit ==
    \E ge \in {"inactive", "active"} :
        Loaded([folders |-> {}, remotes |-> {}], ge)

ListenerNext ==
    \/ \E api \in ApiOutcomes : Activate(api)
    \/ \E a \in BOOLEAN, api \in ApiOutcomes : BridgeResume(a, api)
    \/ \E r \in Repos : OpenRepository(r)
    \/ \E r \in Repos : RepoStateChange(r)
    \/ \E r \in Repos, op \in Operations : ObservedOperation(r, op)
    \/ \E r \in Repos, ev \in CommandEvents : ObservedGitCommand(r, ev)
    \/ \E t \in timers : DebounceFire(t)
    \/ \E t \in timers : DismissFire(t)
    \/ AdvanceToTimer

ListenerSpec == ListenerInit /\ [][ListenerNext]_vars

\* Reflog watchers: every workspace, no git extension; every file event is
\* recorded.
WatcherInit == \E ws \in Workspaces : Loaded(ws, "absent")

WatcherNext ==
    \/ \E api \in ApiOutcomes : Activate(api)
    \/ Deactivate
    \/ \E f \in Folders, k \in FsKinds : ObservedFsEvent(f, k)
    \/ \E t \in timers : DebounceFire(t)
    \/ \E t \in timers : DismissFire(t)
    \/ \E d \in Delays : Advance(d)
    \/ AdvanceToTimer

WatcherSpec == WatcherInit /\ [][WatcherNext]_vars

\* ---------------------------------------------------------------- claims

DebouncePanels == {i \in 1..Len(panels) : panels[i].by = "debounce"}
PendingDebounce == {t \in timers : t.kind = "debounce"}
PendingDismiss == {t \in timers : t.kind = "dismiss"}

\* every Detection Event but the first came less than 500ms after the one before
Burst == Len(gaps) >= 1 /\ \A i \in 2..Len(gaps) : gaps[i] < DebounceMs

\* every Detection Event but the first came more than 500ms after the one before
Spaced == Len(gaps) >= 1 /\ \A i \in 2..Len(gaps) : gaps[i] > DebounceMs

\* C1: while the extension is active and the Detection Events so far form one
\* burst (each less than 500ms after the one before), the debounce has shown
\* at most one notification, any it has shown came exactly 500ms after the
\* last event, and once no debounce timer is pending it has shown exactly one.
C1_BurstShowsOnce ==
    (pc = "active" /\ Burst) =>
        /\ Cardinality(DebouncePanels) <= 1
        /\ \A p \in DebouncePanels : panels[p].after = DebounceMs
        /\ PendingDebounce = {} => Cardinality(DebouncePanels) = 1

C1_Witness ==
    /\ pc = "active" /\ Burst /\ Len(gaps) >= 2
    /\ Cardinality(DebouncePanels) = 1
    /\ \A p \in DebouncePanels : panels[p].after = DebounceMs

\* C2: while the extension is active and every Detection Event came more than
\* 500ms after the one before, each event has its own notification, shown
\* 500ms after it: N events give N notifications, less the one still pending.
C2_SpacedShowsEach ==
    (pc = "active" /\ Spaced) =>
        /\ Cardinality(DebouncePanels) + Cardinality(PendingDebounce) = Len(gaps)
        /\ Cardinality(PendingDebounce) <= 1
        /\ \A p \in DebouncePanels : panels[p].after = DebounceMs

C2_Witness ==
    /\ pc = "active" /\ Spaced /\ Len(gaps) >= 2
    /\ Cardinality(DebouncePanels) = Len(gaps)

\* C3: at most one panel is live, and it is the newest one: every panel that
\* was open when showYouPushedMessage ran has been disposed.
C3_OneLivePanel ==
    /\ Cardinality(LivePanels) <= 1
    /\ \A i \in 1..Len(panels) : panels[i].live => i = Len(panels)

C3_Witness ==
    /\ LivePanels # {}
    /\ \E i \in 1..Len(panels) : panels[i].closedBy = "replaced"

\* C4 (as claimed): a panel that is neither closed from outside nor replaced
\* stays live for 5000ms and is disposed by the auto-close exactly then.
C4_ClosesAtDismissMs ==
    \A i \in 1..Len(panels) :
        /\ panels[i].closedBy = "auto" => panels[i].age = DismissMs
        /\ panels[i].live => panels[i].age <= DismissMs

\* C5: a panel closed from outside is no longer referred to by currentPanel,
\* and dispose() is never called on a panel that is already disposed.
C5_ExternalCloseClears ==
    /\ ~staleDispose
    /\ \A i \in 1..Len(panels) :
          panels[i].closedBy = "external" => currentPanel # i

\* a panel was closed from outside and its auto-close timer has fired since
C5_Witness ==
    /\ Len(panels) = 1
    /\ panels[1].closedBy = "external"
    /\ timers = {}
    /\ ~staleDispose

\* C6: the step in which the original command of a wrapper call fails throws
\* that same error and leaves the debounce timer, the pending timers, the
\* Detection Events and the panels as they were.
C6_FailedWrapperEmitsNothing ==
    [][\A i \in 1..Len(calls) :
          (calls[i].state = "running" /\ calls'[i].state = "failed") =>
              /\ calls'[i].error \in Errors
              /\ calls'[i].thrown = calls'[i].error
              /\ UNCHANGED <<debounceTimer, timers, gaps, sinceTrig, panels,
                             currentPanel>>]_vars

C6_Witness ==
    \E i \in 1..Len(calls) :
        /\ calls[i].state = "failed"
        /\ calls[i].thrown = calls[i].error
        /\ gaps = <<>>

\* C7: with no git extension, activation ends with the bridge disabled (no
\* rejection, no listener), the watchers are those of the roots with a reflog
\* directory, and a Detection Event is followed by its notification.
C7_AbsentGitExtension ==
    (gitExtension = "absent" /\ pc # "inactive") =>
        /\ bridge = "disabled"
        /\ listeners = {}
        /\ pc = "active" =>
              /\ watchers = {f \in workspace.folders : f \in workspace.remotes}
              /\ (Len(gaps) >= 1 /\ PendingDebounce = {}) => DebouncePanels # {}

C7_Witness ==
    /\ gitExtension = "absent" /\ pc = "active"
    /\ bridge = "disabled" /\ listeners = {}
    /\ calls = <<>> /\ Len(gaps) = 1
    /\ DebouncePanels # {}

\* C8 (as claimed): after deactivate() no panel is live and no auto-close
\* timer is pending.
C8_NoDismissTimerAfterDeactivate ==
    [][(pc = "active" /\ pc' = "deactivated") =>
          /\ \A i \in 1..Len(panels') : ~panels'[i].live
          /\ \A t \in timers' : t.kind # "dismiss"]_vars

\* C8 (amended): after deactivate() no panel is live and no debounce timer is
\* pending; the auto-close timers that were pending still are.
C8_DeactivateClearsDebounce ==
    [][(pc = "active" /\ pc' = "deactivated") =>
          /\ \A i \in 1..Len(panels') : ~panels'[i].live
          /\ \A t \in timers' : t.kind # "debounce"
          /\ {t \in timers' : t.kind = "dismiss"} = PendingDismiss]_vars

\* deactivate() disposed a live panel and cancelled a pending debounce timer
C8_Witness ==
    /\ pc = "deactivated"
    /\ \E i \in 1..Len(panels) : panels[i].closedBy = "deactivate"
    /\ Len(gaps) = 1 /\ DebouncePanels = {} /\ PendingDebounce = {}
    /\ PendingDismiss # {}

\* C9: at most one debounce timer is pending, and it is the one debounceTimer
\* holds, the timer of the last Detection Event.
C9_OneDebounceTimer ==
    /\ Cardinality(PendingDebounce) <= 1
    /\ \A t \in PendingDebounce : t.id = debounceTimer

\* a pending timer was replaced by the next Detection Event
C9_Witness ==
    /\ Len(gaps) >= 2 /\ gaps[2] < DebounceMs
    /\ Cardinality(PendingDebounce) = 1

\* C10: after one Detection Event and nothing else (no test command, no
\* close from outside, no deactivate), there is at most one panel, it was
\* shown 500ms after the event, it is live for at most 5000ms and closed by
\* the auto-close at 5000ms, and once no timer is pending it was shown and
\* is closed.
OneEventOnly ==
    /\ pc = "active"
    /\ Len(gaps) = 1
    /\ \A i \in 1..Len(panels) :
          panels[i].by = "debounce" /\ panels[i].closedBy \in {"none", "auto"}

C10_SingleEvent ==
    OneEventOnly =>
        /\ Len(panels) <= 1
        /\ \A i \in 1..Len(panels) :
              /\ panels[i].after = DebounceMs
              /\ panels[i].age <= DismissMs
              /\ panels[i].live <=> panels[i].closedBy = "none"
              /\ panels[i].closedBy = "auto" => panels[i].age = DismissMs
        /\ timers = {} =>
              Len(panels) = 1 /\ panels[1].closedBy = "auto"

C10_Witness ==
    /\ OneEventOnly
    /\ timers = {}
    /\ Len(panels) = 1
    /\ panels[1].after = DebounceMs
    /\ panels[1].closedBy = "auto" /\ panels[1].age = DismissMs

\* a step in which the panel of the test command is created
TestShown ==
    Len(panels') = Len(panels) + 1 /\ panels'[Len(panels')].by = "test"

\* C11: the step of the test command creates the panel at once (it is live,
\* of age 0 and the current one) and leaves the debounce timer as it was:
\* the handle and the pending debounce timers are unchanged.
C11_TestCommandShowsDirectly ==
    [][TestShown =>
          /\ panels'[Len(panels')].live
          /\ panels'[Len(panels')].age = 0
          /\ currentPanel' = Len(panels')
          /\ debounceTimer' = debounceTimer
          /\ PendingDebounce' = PendingDebounce
          /\ UNCHANGED <<gaps, sinceTrig>>]_vars

\* the test command ran 250ms after a Detection Event, whose timer is pending
C11_Witness ==
    /\ Len(panels) = 1
    /\ panels[1].by = "test" /\ panels[1].live /\ panels[1].age = 0
    /\ Len(gaps) = 1
    /\ \E t \in PendingDebounce : t.id = debounceTimer /\ t.left = 250

\* C12: the operation listener calls triggerYouPushed exactly for the
\* operations Push and Sync; the git command listener calls it exactly when
\* the event has a command vector whose first token is push.
C12_ListenersEmitOnPush ==
    /\ lastEvent.kind = "operation" =>
          (lastEvent.emitted <=> lastEvent.what \in {"Push", "Sync"})
    /\ lastEvent.kind = "command" =>
          (lastEvent.emitted <=>
              /\ lastEvent.ev.hasCommand
              /\ Len(lastEvent.ev.command) >= 1
              /\ lastEvent.ev.command[1] = "push")

\* both listeners have emitted: an operation of r2 and `push origin` of r1
C12_Witness ==
    /\ lastEvent.kind = "command"
    /\ lastEvent.ev.command = <<"push", "origin">>
    /\ lastEvent.emitted
    /\ lastEvent.sources = {"r1", "r2"}
    /\ Len(gaps) = 2

\* C13: invoking a wrapper emits nothing; the step in which its original
\* command completes emits exactly one Detection Event (one more event, its
\* debounce timer pending); a call that has settled never changes again.
C13_WrapperEmitsAfterCompletion ==
    [][/\ Len(calls') > Len(calls) =>
             UNCHANGED <<gaps, sinceTrig, timers, debounceTimer, panels>>
       /\ \A i \in 1..Len(calls) :
             /\ (calls[i].state = "running" /\ calls'[i].state = "done") =>
                   /\ Len(gaps') = Len(gaps) + 1
                   /\ \E t \in PendingDebounce' :
                         t.id = debounceTimer' /\ t.left = DebounceMs
             /\ calls[i].state # "running" => calls'[i] = calls[i]]_vars

\* one wrapper call, completed, is the only Detection Event and was shown
C13_Witness ==
    /\ Len(calls) = 1 /\ calls[1].state = "done"
    /\ watchers = {} /\ listeners = {}
    /\ Len(gaps) = 1
    /\ Cardinality(DebouncePanels) = 1

\* a step that removes a pending debounce timer without running its callback
Cancelled ==
    /\ \E t \in PendingDebounce : \A u \in timers' : u.id # t.id
    /\ ~(Len(panels') = Len(panels) + 1 /\ panels'[Len(panels')].by = "debounce")

\* C14 (as claimed): a pending debounce timer is cancelled only by a step
\* that is a call of triggerYouPushed.
C14_OnlyTriggerCancels ==
    [][Cancelled => Len(gaps') = Len(gaps) + 1]_vars

\* C14 (amended): a pending debounce timer is cancelled only by a call of
\* triggerYouPushed or by deactivate(); showing a panel, the test command, a
\* close from outside and the auto-close leave it pending.
C14_OnlyTriggerOrDeactivateCancels ==
    [][Cancelled =>
          \/ Len(gaps') = Len(gaps) + 1
          \/ pc = "active" /\ pc' = "deactivated"]_vars

\* a second event cancelled the timer of the first, the test command left the
\* second timer pending, and deactivate() cancelled it
C14_Witness ==
    /\ pc = "deactivated"
    /\ Len(gaps) = 2 /\ gaps[2] < DebounceMs
    /\ \E i \in 1..Len(panels) : panels[i].by = "test"
    /\ DebouncePanels = {} /\ PendingDebounce = {}

\* C15 (as claimed): with the git extension installed, once the bridge setup
\* has ended without the API, the bridge is disabled without a listener: the
\* promise of setupGitExtensionListener is not rejected.
C15_NoApiDegradesSilently ==
    (gitExtension # "absent" /\ bridge \notin {"idle", "awaiting", "attached"}) =>
        /\ bridge = "disabled"
        /\ listeners = {}

\* C16: while active, the watched roots are those with a reflog directory; a
\* file event calls triggerYouPushed exactly when it is a change or a create
\* of a watched root; the debounce is one for all roots: at most one timer is
\* pending, and events that form one burst show one notification.
C16_WatchersShareDebounce ==
    /\ pc = "active" =>
          watchers = {f \in workspace.folders : f \in workspace.remotes}
    /\ lastEvent.kind = "fs" =>
          /\ lastEvent.from \in workspace.folders
          /\ lastEvent.from \in workspace.remotes
          /\ lastEvent.emitted <=> lastEvent.what \in {"change", "create"}
    /\ Cardinality(PendingDebounce) <= 1
    /\ (pc = "active" /\ Burst) =>
          /\ Cardinality(DebouncePanels) <= 1
          /\ PendingDebounce = {} => Cardinality(DebouncePanels) = 1

\* events of two roots 250ms apart were shown as one notification
C16_Witness ==
    /\ pc = "active"
    /\ lastEvent.sources = {"f1", "f2"}
    /\ Len(gaps) = 2 /\ gaps[2] = 250
    /\ PendingDebounce = {}
    /\ Cardinality(DebouncePanels) = 1

\* C17: a live panel is at most 5000ms old and an auto-close timer is pending
\* that fires no later than 5000ms after the panel was created; a panel the
\* auto-close disposed was at most 5000ms old.
C17_DisposedWithinDismissMs ==
    \A i \in 1..Len(panels) :
        /\ panels[i].live =>
              /\ panels[i].age <= DismissMs
              /\ \E t \in PendingDismiss : t.left + panels[i].age <= DismissMs
        /\ panels[i].closedBy = "auto" => panels[i].age <= DismissMs

\* a panel was closed from outside, a later one by its own auto-close timer
C17_Witness ==
    /\ Len(panels) = 2
    /\ panels[1].closedBy = "external"
    /\ panels[2].closedBy = "auto" /\ panels[2].age = DismissMs
    /\ Len(gaps) >= 1

\* C18: currentPanel is set exactly when a panel is live, it is that panel,
\* and dispose() was never called on a disposed panel.
C18_CurrentPanelIsLivePanel ==
    /\ currentPanel # 0 <=> LivePanels # {}
    /\ LivePanels \subseteq {currentPanel}
    /\ currentPanel # 0 => currentPanel \in 1..Len(panels)
    /\ ~staleDispose

\* panels were disposed by showYouPushedMessage, from outside and by
\* deactivate()
C18_Witness ==
    /\ pc = "deactivated"
    /\ currentPanel = 0
    /\ \E i \in 1..Len(panels) : panels[i].closedBy = "replaced"
    /\ \E i \in 1..Len(panels) : panels[i].closedBy = "external"
    /\ \E i \in 1..Len(panels) : panels[i].closedBy = "deactivate"

\* C19: deactivate() leaves no debounce timer pending; after it, a step that
\* is no Detection Event sets no debounce timer and shows no panel.
C19_NothingShownAfterDeactivate ==
    [][/\ (pc = "active" /\ pc' = "deactivated") => PendingDebounce' = {}
       /\ (pc = "deactivated" /\ PendingDebounce = {} /\ Len(gaps') = Len(gaps)) =>
             /\ PendingDebounce' = {}
             /\ Len(panels') = Len(panels)]_vars

\* deactivate() came less than 500ms after the only Detection Event; more
\* than 500ms later nothing has been shown
C19_Witness ==
    /\ pc = "deactivated"
    /\ Len(gaps) = 1 /\ sinceTrig = FarMs
    /\ panels = <<>>
    /\ timers = {}

====
